---- MODULE Spec2Model ----
(***************************************************************************)
(* LinkedChain / LinkedChainHistory (src/src/linked-chain.ts).             *)
(*                                                                         *)
(* A LinkedChain node holds a data payload, metadata and graph pointers,   *)
(* and owns a LinkedChainHistory: a timeline of delta and checkpoint       *)
(* entries, an original_state snapshot and a latest_state snapshot that    *)
(* add_entry mutates in place.                                             *)
(*                                                                         *)
(* Encoding.  Nodes are ids 1..MaxNodes of an arena, NULL is the null      *)
(* pointer and the undefined origin.  A payload T is an object over        *)
(* Fields with scalar values; "data" is [def, obj] so that undefined       *)
(* (a node constructed without data) is a value.  A title is a sequence    *)
(* of tokens, so that the template literal `${title} (Branch)` is an       *)
(* append.  Timeline index i of the code is position i + 1 here.           *)
(* Timestamps (Date.now()) are not modelled.                               *)
(***************************************************************************)
EXTENDS Integers, Sequences, FiniteSets, TLC

\* ---------------------------------------------------------------- bounds
MaxNodes == 3
\* entries appended over all histories after their genesis checkpoints
MaxEntries == 2
\* live members of all progeny sets together (graph specification)
MaxLinks == 3

\* ---------------------------------------------------------------- values
NULL == 0
NodeIds == 1..MaxNodes

Fields == {"f", "g"}
Values == {0, 1}
EmptyObj == [k \in {} |-> NULL]
Objects == UNION {[S -> Values] : S \in SUBSET Fields}

\* T | undefined
Undefined == [def |-> FALSE, obj |-> EmptyObj]
Defined(o) == [def |-> TRUE, obj |-> o]

\* Object.assign(target, source) on plain objects
ObjectAssign(target, source) ==
    [k \in (DOMAIN target) \cup (DOMAIN source) |->
        IF k \in DOMAIN source THEN source[k] ELSE target[k]]

\* Metadata: only title and description take part in the ledger.
MetaKeys == {"title", "description"}
BranchMark == " (Branch)"
UndefinedDescription == "<undefined>"
\* LinkedChain.metadata(): this._metadata ?? { title: "", description: "", extra: {} }
DefaultMetadata == [title |-> <<>>, description |-> ""]
InitTitles == {<<"A">>}
TitleInputs == {<<"B">>}
DescriptionInputs == {"d"}
\* a Metadata argument: each of title / description given or left undefined
MetadataInputs ==
    {EmptyObj}
    \cup {[k \in {"title"} |-> t] : t \in TitleInputs}
    \cup {[k \in {"description"} |-> d] : d \in DescriptionInputs}

\* ------------------------------------------------------- history entries
NoCheckpoint == [def |-> FALSE, data |-> Undefined, metadata |-> DefaultMetadata]
\* { timestamp, data_delta, metadata_delta } pushed by add_entry for a node
DeltaEntry(dd, md) ==
    [data_delta |-> Defined(dd), metadata_delta |-> Defined(md),
     checkpoint |-> NoCheckpoint]
\* { timestamp, data_delta: item } pushed by add_entry for a raw partial
PartialEntry(item) ==
    [data_delta |-> Defined(item), metadata_delta |-> Undefined,
     checkpoint |-> NoCheckpoint]
\* { timestamp, checkpoint }
CheckpointEntry(snap) ==
    [data_delta |-> Undefined, metadata_delta |-> Undefined,
     checkpoint |-> [def |-> TRUE, data |-> snap.data, metadata |-> snap.metadata]]

\* LinkedChainHistory.create_snapshot_link: data deep-cloned, metadata spread
create_snapshot_link(link) ==
    [data |-> link.data, metadata |-> link.metadata]

\* calculate_delta recording every key of newObj, changed or not
calculate_delta_all(oldObj, newObj) == newObj

\* LinkedChainHistory.calculate_delta: keys of newObj whose value differs
calculate_delta(oldObj, newObj) ==
    LET changed == {k \in DOMAIN newObj :
                       k \notin DOMAIN oldObj \/ newObj[k] # oldObj[k]}
    IN  [k \in changed |-> newObj[k]]

\* LinkedChainHistory.calculate_metadata_delta: title and description only
calculate_metadata_delta(old_metadata, new_metadata) ==
    LET changed == {k \in MetaKeys : old_metadata[k] # new_metadata[k]}
    IN  [k \in changed |-> new_metadata[k]]

\* LinkedChainHistory.add_checkpoint
add_checkpoint(h, link) ==
    [h EXCEPT !.timeline = Append(@, CheckpointEntry(create_snapshot_link(link)))]

\* the constructor without its add_checkpoint
NewHistoryUnseeded(link) ==
    [timeline |-> <<>>,
     original_state |-> create_snapshot_link(link),
     latest_state |-> create_snapshot_link(link),
     saved_checkpoints |-> <<>>]

\* LinkedChainHistory.constructor
NewHistory(link) ==
    add_checkpoint(
        [timeline |-> <<>>,
         original_state |-> create_snapshot_link(link),
         latest_state |-> create_snapshot_link(link),
         saved_checkpoints |-> <<>>],
        create_snapshot_link(link))

\* add_entry with the new entry written over the last one instead of pushed
add_entry_overwriting(h, item) ==
    LET latest == h.latest_state
        has_delta == item.data.def /\ latest.data.def
        data_delta == IF has_delta
                        THEN calculate_delta(latest.data.obj, item.data.obj)
                        ELSE EmptyObj
        meta_delta == calculate_metadata_delta(latest.metadata, item.metadata)
    IN  IF (has_delta /\ DOMAIN data_delta # {}) \/ DOMAIN meta_delta # {}
          THEN [h EXCEPT
                  !.timeline = [@ EXCEPT ![Len(@)] = DeltaEntry(data_delta, meta_delta)],
                  !.latest_state =
                      [data |-> IF has_delta
                                  THEN Defined(ObjectAssign(latest.data.obj, data_delta))
                                  ELSE latest.data,
                       metadata |-> ObjectAssign(latest.metadata, meta_delta)]]
          ELSE h

\* add_entry without the test that skips an empty delta
add_entry_unconditional(h, item) ==
    LET latest == h.latest_state
        has_delta == item.data.def /\ latest.data.def
        data_delta == IF has_delta
                        THEN calculate_delta(latest.data.obj, item.data.obj)
                        ELSE EmptyObj
        meta_delta == calculate_metadata_delta(latest.metadata, item.metadata)
    IN  [h EXCEPT
           !.timeline = Append(@, DeltaEntry(data_delta, meta_delta)),
           !.latest_state =
               [data |-> IF has_delta
                           THEN Defined(ObjectAssign(latest.data.obj, data_delta))
                           ELSE latest.data,
                metadata |-> ObjectAssign(latest.metadata, meta_delta)]]

\* LinkedChainHistory.add_entry, item instanceof LinkedChain
add_entry(h, item) ==
    LET latest == h.latest_state
        has_delta == item.data.def /\ latest.data.def
        data_delta == IF has_delta
                        THEN calculate_delta(latest.data.obj, item.data.obj)
                        ELSE EmptyObj
        meta_delta == calculate_metadata_delta(latest.metadata, item.metadata)
    IN  IF (has_delta /\ DOMAIN data_delta # {}) \/ DOMAIN meta_delta # {}
          THEN [h EXCEPT
                  !.timeline = Append(@, DeltaEntry(data_delta, meta_delta)),
                  !.latest_state =
                      [data |-> IF has_delta
                                  THEN Defined(ObjectAssign(latest.data.obj, data_delta))
                                  ELSE latest.data,
                       metadata |-> ObjectAssign(latest.metadata, meta_delta)]]
          ELSE h

\* LinkedChainHistory.add_entry, item a raw Partial<T>
add_entry_partial(h, item) ==
    [h EXCEPT
       !.timeline = Append(@, PartialEntry(item)),
       !.latest_state.data =
           IF @.def THEN Defined(ObjectAssign(@.obj, item)) ELSE @]

\* save_checkpoint that snapshots original_state
save_checkpoint_of_original(h) ==
    LET snapshot == create_snapshot_link(h.original_state)
    IN  [h EXCEPT !.saved_checkpoints = Append(@, snapshot),
                  !.timeline = Append(@, CheckpointEntry(snapshot))]

\* LinkedChainHistory.save_checkpoint
save_checkpoint(h) ==
    LET snapshot == create_snapshot_link(h.latest_state)
    IN  [h EXCEPT !.saved_checkpoints = Append(@, snapshot),
                  !.timeline = Append(@, CheckpointEntry(snapshot))]

\* The replay loop of rebuild_at: entries jumpIdx+1 .. index onto baselink.
\* Object.assign(undefined, delta) is a TypeError.
RECURSIVE Replay(_, _, _, _)
Replay(timeline, base, i, index) ==
    IF i > index \/ base.status # "ok" THEN base
    ELSE LET entry == timeline[i + 1]
             d1 == IF entry.data_delta.def /\ base.data.def
                     THEN Defined(ObjectAssign(base.data.obj, entry.data_delta.obj))
                     ELSE base.data
             st == IF entry.data_delta.def /\ ~base.data.def THEN "throws" ELSE "ok"
             m1 == IF entry.metadata_delta.def /\ st = "ok"
                     THEN ObjectAssign(base.metadata, entry.metadata_delta.obj)
                     ELSE base.metadata
         IN  Replay(timeline, [status |-> st, data |-> d1, metadata |-> m1], i + 1, index)

NotFound == [status |-> "undefined", data |-> Undefined, metadata |-> DefaultMetadata]

\* rebuild_at with its checkpoint search started at the end of the timeline
\* instead of at index
rebuild_from_checkpoint_any(h, index) ==
    LET cps == {i \in 0..(Len(h.timeline) - 1) : h.timeline[i + 1].checkpoint.def}
        jumpIdx == IF cps = {} THEN -1
                   ELSE CHOOSE i \in cps : \A j \in cps : j <= i
        src == IF cps = {} THEN h.original_state
               ELSE h.timeline[jumpIdx + 1].checkpoint
        baselink == create_snapshot_link(src)
    IN  Replay(h.timeline,
               [status |-> "ok", data |-> baselink.data, metadata |-> baselink.metadata],
               jumpIdx + 1, index)

\* rebuild_at past its range check: the nearest checkpoint at or before index
\* (or original_state), cloned, with the later entries replayed onto it.
rebuild_from_checkpoint(h, index) ==
    LET cps == {i \in 0..index : h.timeline[i + 1].checkpoint.def}
        jumpIdx == IF cps = {} THEN -1
                   ELSE CHOOSE i \in cps : \A j \in cps : j <= i
        src == IF cps = {} THEN h.original_state
               ELSE h.timeline[jumpIdx + 1].checkpoint
        baselink == create_snapshot_link(src)
    IN  Replay(h.timeline,
               [status |-> "ok", data |-> baselink.data, metadata |-> baselink.metadata],
               jumpIdx + 1, index)

\* rebuild_at with the range check index > length: timeline[length] is
\* undefined and skipped by the replay loop
rebuild_at_off_by_one(h, index) ==
    IF index < 0 \/ index > Len(h.timeline)
      THEN NotFound
      ELSE rebuild_from_checkpoint(h, IF index = Len(h.timeline) THEN index - 1 ELSE index)

\* delta_between_points with its loop started at start
RECURSIVE AssignDeltas(_, _, _, _)
AssignDeltas(tl, delta, i, end) ==
    IF i > end THEN delta
    ELSE AssignDeltas(tl,
                      IF tl[i + 1].data_delta.def
                        THEN ObjectAssign(delta, tl[i + 1].data_delta.obj)
                        ELSE delta,
                      i + 1, end)

delta_between_points_from_start(h, start, end) ==
    IF start < 0 \/ end >= Len(h.timeline) THEN EmptyObj
    ELSE IF end > start THEN AssignDeltas(h.timeline, EmptyObj, start, end)
    ELSE EmptyObj

\* LinkedChainHistory.delta_between_points; AssignDeltas is its loop over
\* the entries i..end
delta_between_points(h, start, end) ==
    IF start < 0 \/ end >= Len(h.timeline) THEN EmptyObj
    ELSE IF end > start THEN AssignDeltas(h.timeline, EmptyObj, start + 1, end)
    ELSE EmptyObj

\* LinkedChainHistory.rebuild_at: status "undefined" (index out of range),
\* "throws" (TypeError while replaying) or "ok" with the snapshot's state.
rebuild_at(h, index) ==
    IF index < 0 \/ index >= Len(h.timeline)
      THEN NotFound
      ELSE rebuild_from_checkpoint(h, index)

\* ----------------------------------------------------------------- state
VARIABLES
    nodes,      \* number of LinkedChain nodes constructed so far (ids 1..nodes)
    data,       \* _data
    metadata,   \* _metadata, read through metadata()
    origin,     \* _origin
    next,       \* _next
    previous,   \* _previous
    progeny,    \* _progeny
    ancestors,  \* _ancestors
    is_snapshot,         \* _is_snapshot
    chain_link_history,  \* _chain_link_history: the History object a node holds
    history,    \* the History objects, each named by the node that created it
    call        \* the last public call: operation, arguments, outcome, prior state

vars == <<nodes, data, metadata, origin, next, previous, progeny, ancestors,
          is_snapshot, chain_link_history, history, call>>
graph == <<next, previous, progeny, ancestors>>

Live == 1..nodes
Link(n) == [data |-> data[n], metadata |-> metadata[n]]
\* LinkedChain.history()
History(n) == history[chain_link_history[n]]
timeline(n) == History(n).timeline

NoHistory == [timeline |-> <<>>,
              original_state |-> [data |-> Undefined, metadata |-> DefaultMetadata],
              latest_state |-> [data |-> Undefined, metadata |-> DefaultMetadata],
              saved_checkpoints |-> <<>>]

RECURSIVE Appended(_, _)
Appended(h, S) ==
    IF S = {} THEN 0
    ELSE LET x == CHOOSE y \in S : TRUE
         IN  (IF h[x].timeline = <<>> THEN 0 ELSE Len(h[x].timeline) - 1)
             + Appended(h, S \ {x})
\* the bound of the model: at most MaxEntries entries are appended in all
WithinBound(h) == Appended(h, NodeIds) <= MaxEntries

\* The record of a call at its return: the operation, its target node and
\* index argument, how it ended ("ok" returned, or the error thrown), the node it
\* returned or took as its argument, which of data / metadata / next /
\* parent it was given, and the number of nodes and the target's data,
\* metadata and History as they were when the call was made; for a
\* traversal, the predicate it was given (the set of nodes satisfying it)
\* and the nodes it yielded; for delta_between_points, start (as index), end
\* and the delta it returned; for connected_links, the set it returned.
\* Idle: the caller is between two calls.
Call(op, n, index, result, ret, has_data, has_meta) ==
    [op |-> op, node |-> n, index |-> index, result |-> result, ret |-> ret,
     has_data |-> has_data, has_meta |-> has_meta,
     has_next |-> FALSE, has_parent |-> FALSE,
     pre_nodes |-> nodes,
     pre_data |-> data[n], pre_metadata |-> metadata[n],
     pre_history |-> History(n),
     pred |-> {}, path |-> <<>>, end |-> 0, delta |-> EmptyObj, links |-> {}]

Idle == [op |-> "idle", node |-> NULL, index |-> 0, result |-> "ok", ret |-> NULL,
         has_data |-> FALSE, has_meta |-> FALSE,
         has_next |-> FALSE, has_parent |-> FALSE,
         pre_nodes |-> 0,
         pre_data |-> Undefined, pre_metadata |-> DefaultMetadata,
         pre_history |-> NoHistory,
         pred |-> {}, path |-> <<>>, end |-> 0, delta |-> EmptyObj, links |-> {}]

\* line 80 without the test of is_snapshot
history_to_set_any(n, ingredients) ==
    IF ingredients.history # NULL THEN ingredients.history ELSE n

\* LinkedChain.constructor, line 80: the History the new node n holds
history_to_set(n, ingredients) ==
    IF ingredients.is_snapshot /\ ingredients.history # NULL
      THEN ingredients.history
      ELSE n

\* constructor inputs
InitData == {Defined(o) : o \in [Fields -> {0}]}
InitMetadata ==
    {[title |-> t, description |-> UndefinedDescription] : t \in InitTitles}

\* the state after new LinkedChain({ data, metadata }) built the first node
Constructed(d, m) ==
    /\ nodes = 1
    /\ data = [n \in NodeIds |-> IF n = 1 THEN d ELSE Undefined]
    /\ metadata = [n \in NodeIds |-> IF n = 1 THEN m ELSE DefaultMetadata]
    /\ origin = [n \in NodeIds |-> NULL]
    /\ next = [n \in NodeIds |-> NULL]
    /\ previous = [n \in NodeIds |-> NULL]
    /\ progeny = [n \in NodeIds |-> {}]
    /\ ancestors = [n \in NodeIds |-> {}]
    /\ is_snapshot = [n \in NodeIds |-> FALSE]
    /\ chain_link_history = [n \in NodeIds |-> n]
    /\ history = [n \in NodeIds |->
                    IF n = 1 THEN NewHistory([data |-> d, metadata |-> m])
                    ELSE NoHistory]
    /\ call = [Idle EXCEPT !.op = "new", !.node = 1, !.ret = 1,
                            !.has_data = d.def]

\* new LinkedChain({ data, metadata })
Init ==
    \E d \in InitData, m \in InitMetadata : Constructed(d, m)

\* --------------------------------------------------------------- actions
\* The four pointer fields of every node as one record, so that the setters
\* compose inside update / link_next / link_previous.
Graph == [next |-> next, previous |-> previous, progeny |-> progeny,
          ancestors |-> ancestors]

\* set_next that unregisters the next it replaces
set_next_pruning(g, n, new_link) ==
    LET old == g.next[n]
        pruned == IF old # NULL
                    THEN [g EXCEPT !.progeny[n] = @ \ {old},
                                   !.ancestors[old] = @ \ {n}]
                    ELSE g
    IN  [pruned EXCEPT
           !.next[n] = new_link,
           !.progeny[n] = IF new_link # NULL THEN @ \cup {new_link} ELSE @,
           !.ancestors = IF new_link # NULL
                           THEN [@ EXCEPT ![new_link] = @ \cup {n}] ELSE @]

\* set_next that registers the new neighbour on this side only
set_next_one_sided(g, n, new_link) ==
    [g EXCEPT !.next[n] = new_link,
              !.progeny[n] = IF new_link # NULL THEN @ \cup {new_link} ELSE @]

\* LinkedChain.set_next without its history append
set_next(g, n, new_link) ==
    [g EXCEPT !.next[n] = new_link,
              !.progeny[n] = IF new_link # NULL THEN @ \cup {new_link} ELSE @,
              !.ancestors = IF new_link # NULL
                              THEN [@ EXCEPT ![new_link] = @ \cup {n}] ELSE @]

\* LinkedChain.set_previous without its history append
set_previous(g, n, new_link) ==
    [g EXCEPT !.previous[n] = new_link,
              !.ancestors[n] = IF new_link # NULL THEN @ \cup {new_link} ELSE @,
              !.progeny = IF new_link # NULL
                            THEN [@ EXCEPT ![new_link] = @ \cup {n}] ELSE @]

SetGraph(g) ==
    /\ next' = g.next
    /\ previous' = g.previous
    /\ progeny' = g.progeny
    /\ ancestors' = g.ancestors

\* history' with the History that node n holds replaced by h
SetHistory(n, h) ==
    /\ history' = [history EXCEPT ![chain_link_history[n]] = h]
    /\ WithinBound(history')

\* the metadata assigned as given, its undefined fields reset
merge_metadata_replacing(current, new_metadata) ==
    [k \in MetaKeys |->
        IF k \in DOMAIN new_metadata THEN new_metadata[k] ELSE DefaultMetadata[k]]

\* the merge of update / update_metadata: title: new.title ?? this.metadata().title
merge_metadata(current, new_metadata) == ObjectAssign(current, new_metadata)

\* LinkedChain.update: update_metadata (with its own add_entry) when metadata
\* is given, then the metadata merge again, data, next, parent, add_entry.
Update(n, d, m, nx, pr) ==
    LET meta1 == IF m.def THEN merge_metadata(metadata[n], m.obj) ELSE metadata[n]
        h1 == IF m.def
                THEN add_entry(History(n), [data |-> data[n], metadata |-> meta1])
                ELSE History(n)
        data1 == IF d.def THEN d ELSE data[n]
        g1 == IF nx.def THEN set_next(Graph, n, nx.ptr) ELSE Graph
        g2 == IF pr.def THEN set_previous(g1, n, pr.ptr) ELSE g1
        h2 == add_entry(h1, [data |-> data1, metadata |-> meta1])
    IN  /\ call = Idle
        /\ n \in Live
        /\ metadata' = [metadata EXCEPT ![n] = meta1]
        /\ data' = [data EXCEPT ![n] = data1]
        /\ SetGraph(g2)
        /\ SetHistory(n, h2)
        /\ call' = [Call("update", n, 0, "ok", n, d.def, m.def) EXCEPT
                      !.has_next = nx.def, !.has_parent = pr.def]
        /\ UNCHANGED <<nodes, origin, is_snapshot, chain_link_history>>

\* LinkedChain.update_metadata
UpdateMetadata(n, m) ==
    LET meta1 == merge_metadata(metadata[n], m)
        h1 == add_entry(History(n), [data |-> data[n], metadata |-> meta1])
    IN  /\ call = Idle
        /\ n \in Live
        /\ metadata' = [metadata EXCEPT ![n] = meta1]
        /\ SetHistory(n, h1)
        /\ call' = Call("update_metadata", n, 0, "ok", n, FALSE, TRUE)
        /\ UNCHANGED <<nodes, data, origin, graph, is_snapshot, chain_link_history>>

\* the overwrite that forgets the data
overwrite_metadata_only(n, state) == [data |-> data[n], metadata |-> state.metadata]

\* revert_to_history, lines 396-397: the node's state after the overwrite
overwrite(n, state) == [data |-> state.data, metadata |-> state.metadata]

\* LinkedChain.revert_to_history
RevertToHistory(n, index) ==
    LET state == rebuild_at(History(n), index)
        node1 == overwrite(n, state)
        h1 == add_entry(History(n), node1)
    IN  /\ call = Idle
        /\ n \in Live
        /\ IF state.status = "ok"
             THEN /\ data' = [data EXCEPT ![n] = node1.data]
                  /\ metadata' = [metadata EXCEPT ![n] = node1.metadata]
                  /\ SetHistory(n, h1)
             ELSE UNCHANGED <<data, metadata, history>>
        /\ call' = Call("revert_to_history", n, index,
                        IF state.status = "throws" THEN "TypeError" ELSE "ok", n,
                        FALSE, FALSE)
        /\ UNCHANGED <<nodes, origin, graph, is_snapshot, chain_link_history>>

\* the branch built with origin: this
branch_ingredients_origin_this(n, state) ==
    [data |-> state.data,
     metadata |-> [state.metadata EXCEPT !.title = Append(@, BranchMark)],
     origin |-> n,
     is_snapshot |-> FALSE,
     history |-> NULL]

\* the branch built the way create_snapshot_link builds a snapshot
branch_ingredients_shared(n, state) ==
    [data |-> state.data,
     metadata |-> [state.metadata EXCEPT !.title = Append(@, BranchMark)],
     origin |-> IF origin[n] # NULL THEN origin[n] ELSE n,
     is_snapshot |-> TRUE,
     history |-> chain_link_history[n]]

\* branch_from_history, lines 413-417: the ingredients of the branch node
branch_ingredients(n, state) ==
    [data |-> state.data,
     metadata |-> [state.metadata EXCEPT !.title = Append(@, BranchMark)],
     origin |-> IF origin[n] # NULL THEN origin[n] ELSE n,
     is_snapshot |-> FALSE,
     history |-> NULL]

\* LinkedChain.branch_from_history
BranchFromHistory(n, index) ==
    LET state == rebuild_at(History(n), index)
        b == nodes + 1
        ingredients == branch_ingredients(n, state)
        branch == [data |-> ingredients.data, metadata |-> ingredients.metadata]
        hid == history_to_set(b, ingredients)
        created == IF hid = b THEN [history EXCEPT ![b] = NewHistory(branch)]
                   ELSE history
        h1 == add_entry(created[chain_link_history[n]], branch)
    IN  /\ call = Idle
        /\ n \in Live
        /\ IF state.status = "ok"
             THEN /\ nodes < MaxNodes
                  /\ nodes' = b
                  /\ data' = [data EXCEPT ![b] = ingredients.data]
                  /\ metadata' = [metadata EXCEPT ![b] = ingredients.metadata]
                  /\ origin' = [origin EXCEPT ![b] = ingredients.origin]
                  /\ is_snapshot' = [is_snapshot EXCEPT ![b] = ingredients.is_snapshot]
                  /\ chain_link_history' = [chain_link_history EXCEPT ![b] = hid]
                  /\ history' = [created EXCEPT ![chain_link_history[n]] = h1]
                  /\ WithinBound(history')
                  /\ call' = Call("branch_from_history", n, index, "ok", b, FALSE, FALSE)
             ELSE /\ call' = Call("branch_from_history", n, index,
                                  IF state.status = "throws" THEN "TypeError"
                                  ELSE "Invalid history index",
                                  NULL, FALSE, FALSE)
                  /\ UNCHANGED <<nodes, data, metadata, origin, is_snapshot,
                                 chain_link_history, history>>
        /\ UNCHANGED graph

\* history().add_entry(item) with a raw partial payload
AddEntry(n, item) ==
    /\ call = Idle
    /\ n \in Live
    /\ SetHistory(n, add_entry_partial(History(n), item))
    /\ call' = Call("add_entry", n, 0, "ok", n, TRUE, FALSE)
    /\ UNCHANGED <<nodes, data, metadata, origin, graph, is_snapshot, chain_link_history>>

\* history().save_checkpoint()
SaveCheckpoint(n) ==
    /\ call = Idle
    /\ n \in Live
    /\ SetHistory(n, save_checkpoint(History(n)))
    /\ call' = Call("save_checkpoint", n, 0, "ok", n, FALSE, FALSE)
    /\ UNCHANGED <<nodes, data, metadata, origin, graph, is_snapshot, chain_link_history>>

\* history().add_checkpoint(link) with a live node as the link
AddCheckpoint(n, link) ==
    /\ call = Idle
    /\ n \in Live /\ link \in Live
    /\ SetHistory(n, add_checkpoint(History(n), Link(link)))
    /\ call' = Call("add_checkpoint", n, 0, "ok", link, FALSE, FALSE)
    /\ UNCHANGED <<nodes, data, metadata, origin, graph, is_snapshot, chain_link_history>>

\* the call returns to its caller
Return ==
    /\ call # Idle
    /\ call' = Idle
    /\ UNCHANGED <<nodes, data, metadata, origin, graph, is_snapshot,
                   chain_link_history, history>>

\* argument sets
\* history().rebuild_at(index), called for its result
RebuildAt(n, index) ==
    LET state == rebuild_at(History(n), index)
    IN  /\ call = Idle
        /\ n \in Live
        /\ call' = Call("rebuild_at", n, index,
                        IF state.status = "throws" THEN "TypeError" ELSE state.status,
                        NULL, FALSE, FALSE)
        /\ UNCHANGED <<nodes, data, metadata, origin, graph, is_snapshot,
                       chain_link_history, history>>

\* history().delta_between_points(start, end)
DeltaBetweenPoints(n, start, end) ==
    /\ call = Idle
    /\ n \in Live
    /\ call' = [Call("delta_between_points", n, start, "ok", NULL, FALSE, FALSE)
                  EXCEPT !.end = end,
                         !.delta = delta_between_points(History(n), start, end)]
    /\ UNCHANGED <<nodes, data, metadata, origin, graph, is_snapshot,
                   chain_link_history, history>>

\* ---------------------------------------------------------- graph actions
\* A snapshot node made by create_snapshot_link from node k is the id -k: the
\* constructor registers it in the sets of the nodes its pointers name.
Snapshot(k) == 0 - k

\* LinkedChain.constructor, lines 84-91: node (or snapshot) id registered with
\* its parent and its next
register(g, id, parent, nxt) ==
    [g EXCEPT
       !.progeny = [x \in NodeIds |->
                      IF x = parent THEN @[x] \cup {id} ELSE @[x]],
       !.ancestors = [x \in NodeIds |->
                      IF x = nxt THEN @[x] \cup {id} ELSE @[x]]]

RECURSIVE Members(_, _)
Members(p, S) ==
    IF S = {} THEN 0
    ELSE LET x == CHOOSE y \in S : TRUE
         IN  Cardinality(p[x] \cap NodeIds) + Members(p, S \ {x})
\* the bound of the graph specification
LinksWithinBound(g) == Members(g.progeny, NodeIds) <= MaxLinks

SetGraphBounded(g) == SetGraph(g) /\ LinksWithinBound(g)

\* h with the History that node n holds replaced by add_entry(it, item)
Record(h, n, item) ==
    [h EXCEPT ![chain_link_history[n]] = add_entry(@, item)]

SetHistories(h) ==
    /\ history' = h
    /\ WithinBound(history')

\* new LinkedChain({ data, metadata }): a detached node
NewLinkedChain(d, m) ==
    /\ call = Idle
    /\ nodes < MaxNodes
    /\ LET k == nodes + 1
       IN  /\ nodes' = k
           /\ data' = [data EXCEPT ![k] = d]
           /\ metadata' = [metadata EXCEPT ![k] = m]
           /\ history' = [history EXCEPT ![k] = NewHistory([data |-> d, metadata |-> m])]
           /\ call' = [Idle EXCEPT !.op = "new", !.node = k, !.ret = k,
                                    !.has_data = d.def, !.pre_nodes = nodes]
    /\ UNCHANGED <<origin, graph, is_snapshot, chain_link_history>>

\* new LinkedChain({ data, is_snapshot: true, history: n.history() }): a node
\* that holds the History of node n, as the nodes returned by rebuild_at do
NewSnapshotLink(d, n) ==
    /\ call = Idle
    /\ nodes < MaxNodes
    /\ n \in Live
    /\ LET k == nodes + 1
           ingredients == [is_snapshot |-> TRUE, history |-> chain_link_history[n]]
       IN  /\ nodes' = k
           /\ data' = [data EXCEPT ![k] = d]
           /\ is_snapshot' = [is_snapshot EXCEPT ![k] = ingredients.is_snapshot]
           /\ chain_link_history' =
                 [chain_link_history EXCEPT ![k] = history_to_set(k, ingredients)]
           /\ call' = [Idle EXCEPT !.op = "new", !.node = k, !.ret = k,
                                    !.has_data = d.def, !.pre_nodes = nodes]
    /\ UNCHANGED <<metadata, origin, graph, history>>

\* new LinkedChain({ data, is_snapshot, history }), history being that of a
\* live node or left out
NewLinkedChainIngredients(d, snap, hist) ==
    /\ call = Idle
    /\ nodes < MaxNodes
    /\ snap \in BOOLEAN
    /\ hist \in Live \cup {NULL}
    /\ LET k == nodes + 1
           ingredients ==
               [is_snapshot |-> snap,
                history |-> IF hist = NULL THEN NULL ELSE chain_link_history[hist]]
           hid == history_to_set(k, ingredients)
       IN  /\ nodes' = k
           /\ data' = [data EXCEPT ![k] = d]
           /\ is_snapshot' = [is_snapshot EXCEPT ![k] = ingredients.is_snapshot]
           /\ chain_link_history' = [chain_link_history EXCEPT ![k] = hid]
           /\ history' =
                 IF hid = k
                   THEN [history EXCEPT
                           ![k] = NewHistory([data |-> d, metadata |-> metadata[k]])]
                   ELSE history
           /\ call' = [Idle EXCEPT !.op = "new", !.node = k, !.ret = k,
                                    !.has_data = d.def, !.pre_nodes = nodes]
    /\ UNCHANGED <<metadata, origin, graph>>

\* LinkedChain.set_next(new_link), record_history defaulted to true
SetNext(n, new_link) ==
    /\ call = Idle
    /\ n \in Live
    /\ new_link \in Live \cup {NULL}
    /\ SetGraphBounded(set_next(Graph, n, new_link))
    /\ SetHistories(Record(history, n, Link(n)))
    /\ call' = Call("set_next", n, 0, "ok", new_link, FALSE, FALSE)
    /\ UNCHANGED <<nodes, data, metadata, origin, is_snapshot, chain_link_history>>

\* LinkedChain.set_previous(new_link), record_history defaulted to true
SetPrevious(n, new_link) ==
    /\ call = Idle
    /\ n \in Live
    /\ new_link \in Live \cup {NULL}
    /\ SetGraphBounded(set_previous(Graph, n, new_link))
    /\ SetHistories(Record(history, n, Link(n)))
    /\ call' = Call("set_previous", n, 0, "ok", new_link, FALSE, FALSE)
    /\ UNCHANGED <<nodes, data, metadata, origin, is_snapshot, chain_link_history>>

\* LinkedChain.set_next(new_link, false)
SetNextUnrecorded(n, new_link) ==
    /\ call = Idle
    /\ n \in Live
    /\ new_link \in Live \cup {NULL}
    /\ SetGraphBounded(set_next(Graph, n, new_link))
    /\ call' = Call("set_next_unrecorded", n, 0, "ok", new_link, FALSE, FALSE)
    /\ UNCHANGED <<nodes, data, metadata, origin, is_snapshot, chain_link_history,
                   history>>

\* LinkedChain.set_previous(new_link, false)
SetPreviousUnrecorded(n, new_link) ==
    /\ call = Idle
    /\ n \in Live
    /\ new_link \in Live \cup {NULL}
    /\ SetGraphBounded(set_previous(Graph, n, new_link))
    /\ call' = Call("set_previous_unrecorded", n, 0, "ok", new_link, FALSE, FALSE)
    /\ UNCHANGED <<nodes, data, metadata, origin, is_snapshot, chain_link_history,
                   history>>

\* link_next that leaves chain_to_link's previous pointer alone
link_next_forward_only(g, n, chain_to_link) ==
    LET cur_next == g.next[n]
    IN  set_next(set_next(g, chain_to_link, cur_next), n, chain_to_link)

\* link_next, lines 341-344: the three pointer updates
link_next(g, n, chain_to_link) ==
    LET cur_next == g.next[n]
    IN  set_next(set_next(set_previous(g, chain_to_link, n),
                          chain_to_link, cur_next),
                 n, chain_to_link)

\* link_next / link_previous, the history appends: this by its recording
\* setter, chain_to_link when it holds another History
link_histories(h, n, chain_to_link) ==
    LET h1 == Record(h, n, Link(n))
    IN  IF chain_link_history[chain_to_link] # chain_link_history[n]
          THEN Record(h1, chain_to_link, Link(chain_to_link))
          ELSE h1

\* LinkedChain.link_next(chain_to_link)
LinkNext(n, chain_to_link) ==
    /\ call = Idle
    /\ n \in Live /\ chain_to_link \in Live
    /\ SetGraphBounded(link_next(Graph, n, chain_to_link))
    /\ SetHistories(link_histories(history, n, chain_to_link))
    /\ call' = Call("link_next", n, 0, "ok", chain_to_link, FALSE, FALSE)
    /\ UNCHANGED <<nodes, data, metadata, origin, is_snapshot, chain_link_history>>

\* link_previous, lines 352-356: cur_prev?.set_next records on cur_prev
link_previous(g, n, chain_to_link) ==
    LET cur_prev == g.previous[n]
        g1 == IF cur_prev # NULL THEN set_next(g, cur_prev, chain_to_link) ELSE g
    IN  set_previous(set_next(set_previous(g1, chain_to_link, cur_prev),
                              chain_to_link, n),
                     n, chain_to_link)

\* LinkedChain.link_previous(chain_to_link)
LinkPrevious(n, chain_to_link) ==
    /\ call = Idle
    /\ n \in Live /\ chain_to_link \in Live
    /\ SetGraphBounded(link_previous(Graph, n, chain_to_link))
    /\ LET cur_prev == previous[n]
           h1 == IF cur_prev # NULL
                   THEN Record(history, cur_prev, Link(cur_prev))
                   ELSE history
       IN  SetHistories(link_histories(h1, n, chain_to_link))
    /\ call' = Call("link_previous", n, 0, "ok", chain_to_link, FALSE, FALSE)
    /\ UNCHANGED <<nodes, data, metadata, origin, is_snapshot, chain_link_history>>

\* LinkedChain.add_link(link)
AddLink(n, link) ==
    /\ call = Idle
    /\ n \in Live /\ link \in Live
    /\ SetGraphBounded([Graph EXCEPT !.progeny[n] = @ \cup {link},
                                     !.ancestors[link] = @ \cup {n}])
    /\ SetHistories(Record(history, n, Link(link)))
    /\ call' = Call("add_link", n, 0, "ok", link, FALSE, FALSE)
    /\ UNCHANGED <<nodes, data, metadata, origin, is_snapshot, chain_link_history>>

\* the constructor that stores its two pointers and registers nothing
construct_linked_pointers_only(g, k, parent, nxt) ==
    [g EXCEPT !.previous[k] = parent, !.next[k] = nxt]

\* LinkedChain.constructor, lines 73-74 and 80-91, for node k built with
\* parent and next: the snapshots made by its new History register first,
\* then the node itself
construct_linked(g, k, parent, nxt) ==
    LET g1 == register(register(g, Snapshot(k), parent, nxt), k, parent, nxt)
    IN  [g1 EXCEPT !.previous[k] = parent,
                   !.next[k] = nxt,
                   !.ancestors[k] = IF parent # NULL THEN @ \cup {parent} ELSE @,
                   !.progeny[k] = IF nxt # NULL THEN @ \cup {nxt} ELSE @]

\* new LinkedChain({ data, metadata, parent, next })
NewLinkedChainLinked(d, m, parent, nxt) ==
    /\ call = Idle
    /\ nodes < MaxNodes
    /\ parent \in Live \cup {NULL}
    /\ nxt \in Live \cup {NULL}
    /\ LET k == nodes + 1
       IN  /\ nodes' = k
           /\ data' = [data EXCEPT ![k] = d]
           /\ metadata' = [metadata EXCEPT ![k] = m]
           /\ history' = [history EXCEPT ![k] = NewHistory([data |-> d, metadata |-> m])]
           /\ SetGraphBounded(construct_linked(Graph, k, parent, nxt))
           /\ call' = [Idle EXCEPT !.op = "new", !.node = k, !.ret = k,
                                    !.has_data = d.def, !.pre_nodes = nodes,
                                    !.has_parent = parent # NULL,
                                    !.has_next = nxt # NULL]
    /\ UNCHANGED <<origin, is_snapshot, chain_link_history>>

\* the new link built with origin: this
NewLinkOriginThis(op, n, d, g) ==
    LET k == nodes + 1
    IN  /\ nodes' = k
        /\ data' = [data EXCEPT ![k] = Defined(d)]
        /\ metadata' = [metadata EXCEPT ![k] = DefaultMetadata]
        /\ origin' = [origin EXCEPT ![k] = n]
        /\ SetGraphBounded(g)
        /\ call' = Call(op, n, 0, "ok", k, TRUE, FALSE)
        /\ UNCHANGED <<is_snapshot, chain_link_history>>

\* the construction shared by new_next_link and new_previous_link
NewLink(op, n, d, g) ==
    LET k == nodes + 1
    IN  /\ nodes' = k
        /\ data' = [data EXCEPT ![k] = Defined(d)]
        /\ metadata' = [metadata EXCEPT ![k] = DefaultMetadata]
        /\ origin' = [origin EXCEPT ![k] = IF origin[n] # NULL THEN origin[n] ELSE n]
        /\ SetGraphBounded(g)
        /\ call' = Call(op, n, 0, "ok", k, TRUE, FALSE)
        /\ UNCHANGED <<is_snapshot, chain_link_history>>

\* LinkedChain.new_next_link(data)
NewNextLink(n, d) ==
    /\ call = Idle
    /\ n \in Live
    /\ nodes < MaxNodes
    /\ LET k == nodes + 1
           h0 == [history EXCEPT
                    ![k] = NewHistory([data |-> Defined(d), metadata |-> DefaultMetadata])]
       IN  /\ NewLink("new_next_link", n, d,
                      link_next(construct_linked(Graph, k, n, next[n]), n, k))
           /\ SetHistories(link_histories(h0, n, k))

\* LinkedChain.new_previous_link(data)
NewPreviousLink(n, d) ==
    /\ call = Idle
    /\ n \in Live
    /\ nodes < MaxNodes
    /\ LET k == nodes + 1
           cur_prev == previous[n]
           h0 == [history EXCEPT
                    ![k] = NewHistory([data |-> Defined(d), metadata |-> DefaultMetadata])]
           h1 == IF cur_prev # NULL THEN Record(h0, cur_prev, Link(cur_prev)) ELSE h0
       IN  /\ NewLink("new_previous_link", n, d,
                      link_previous(construct_linked(Graph, k, previous[n], n), n, k))
           /\ SetHistories(link_histories(h1, n, k))

\* ------------------------------------------------------------- traversal
Last(s) == s[Len(s)]

\* A walk that has not ended after yielding WalkFuel nodes has revisited a
\* node other than its start and never ends: "diverges".
WalkFuel == MaxNodes + 1

Pointer(direction) == IF direction = "next" THEN next ELSE previous

\* iterate without the test current === this
RECURSIVE WalkUnguarded(_, _, _, _, _)
WalkUnguarded(ptr, this, current, yielded, fuel) ==
    IF current = NULL THEN [done |-> TRUE, yielded |-> yielded]
    ELSE IF fuel = 0 THEN [done |-> FALSE, yielded |-> yielded]
    ELSE WalkUnguarded(ptr, this, ptr[current], Append(yielded, current), fuel - 1)

iterate_unguarded(n, direction) ==
    WalkUnguarded(Pointer(direction), n, Pointer(direction)[n], <<>>, WalkFuel)

\* the loop of iterate: yield current, advance, stop on null or on this
RECURSIVE Walk(_, _, _, _, _)
Walk(ptr, this, current, yielded, fuel) ==
    IF current = NULL THEN [done |-> TRUE, yielded |-> yielded]
    ELSE IF fuel = 0 THEN [done |-> FALSE, yielded |-> yielded]
    ELSE IF ptr[current] = this
           THEN [done |-> TRUE, yielded |-> Append(yielded, current)]
           ELSE Walk(ptr, this, ptr[current], Append(yielded, current), fuel - 1)

\* LinkedChain.iterate(direction), run to its end
iterate(n, direction) ==
    Walk(Pointer(direction), n, Pointer(direction)[n], <<>>, WalkFuel)

\* the first yielded node that satisfies the predicate, or NULL
first_match(yielded, P) ==
    IF \E i \in 1..Len(yielded) : yielded[i] \in P
      THEN yielded[CHOOSE i \in 1..Len(yielded) :
                      /\ yielded[i] \in P
                      /\ \A j \in 1..(i - 1) : yielded[j] \notin P]
      ELSE NULL

\* LinkedChain.find(predicate)
find(n, P) ==
    LET forward == iterate(n, "next")
        backward == iterate(n, "previous")
    IN  IF n \in P THEN [result |-> "ok", ret |-> n]
        ELSE IF first_match(forward.yielded, P) # NULL
          THEN [result |-> "ok", ret |-> first_match(forward.yielded, P)]
        ELSE IF ~forward.done THEN [result |-> "diverges", ret |-> NULL]
        ELSE IF first_match(backward.yielded, P) # NULL
          THEN [result |-> "ok", ret |-> first_match(backward.yielded, P)]
        ELSE IF ~backward.done THEN [result |-> "diverges", ret |-> NULL]
        ELSE [result |-> "ok", ret |-> NULL]

\* a cycle test that only sees a walk coming back to this
has_circular_link_through_this(n) ==
    IF iterate(n, "next").done /\ next[n] # NULL
         /\ next[Last(iterate(n, "next").yielded)] = n
      THEN "true" ELSE "false"

\* the loop of has_circular_link
RECURSIVE Floyd(_, _, _)
Floyd(tortoise, hare, fuel) ==
    IF hare = NULL \/ next[hare] = NULL THEN "false"
    ELSE IF fuel = 0 THEN "diverges"
    ELSE IF next[tortoise] = next[next[hare]] THEN "true"
    ELSE Floyd(next[tortoise], next[next[hare]], fuel - 1)

\* LinkedChain.has_circular_link()
has_circular_link(n) == Floyd(n, n, 2 * WalkFuel)

Traversal(op, n, result, ret, P, yielded) ==
    /\ call = Idle
    /\ n \in Live
    /\ call' = [Call(op, n, 0, result, ret, FALSE, FALSE)
                  EXCEPT !.pred = P, !.path = yielded]
    /\ UNCHANGED <<nodes, data, metadata, origin, graph, is_snapshot,
                   chain_link_history, history>>

\* LinkedChain.progeny_path()
ProgenyPath(n) ==
    LET walk == iterate(n, "next")
    IN  Traversal("progeny_path", n, IF walk.done THEN "ok" ELSE "diverges",
                  NULL, {}, walk.yielded)

\* LinkedChain.ancestor_path()
AncestorPath(n) ==
    LET walk == iterate(n, "previous")
    IN  Traversal("ancestor_path", n, IF walk.done THEN "ok" ELSE "diverges",
                  NULL, {}, walk.yielded)

\* LinkedChain.find(predicate)
Find(n, P) == Traversal("find", n, find(n, P).result, find(n, P).ret, P, <<>>)

\* LinkedChain.has_circular_link()
HasCircularLink(n) ==
    Traversal("has_circular_link", n, has_circular_link(n), NULL, {}, <<>>)

\* the members of the ancestors and progeny sets of a node, progeny only
neighbors_progeny_only(id) ==
    IF id \in NodeIds THEN progeny[id]
    ELSE {x \in NodeIds : id \in ancestors[x]}

\* [...current.ancestors(), ...current.progeny()]; a snapshot holds in its
\* sets the nodes its constructor registered it with (lines 84-91)
neighbors(id) ==
    IF id \in NodeIds THEN ancestors[id] \cup progeny[id]
    ELSE {x \in NodeIds : id \in progeny[x] \cup ancestors[x]}

RECURSIVE SetToSeq(_)
SetToSeq(S) ==
    IF S = {} THEN <<>>
    ELSE LET x == CHOOSE y \in S : TRUE
         IN  <<x>> \o SetToSeq(S \ {x})

\* dequeues allowed to a search before it is reported as not ending
SearchFuel == 2 * MaxNodes + 1

\* the loop of connected_links: dequeue, add and enqueue the new neighbours
RECURSIVE Search(_, _, _)
Search(queue, all, fuel) ==
    IF queue = <<>> THEN [done |-> TRUE, all |-> all]
    ELSE IF fuel = 0 THEN [done |-> FALSE, all |-> all]
    ELSE LET current == Head(queue)
             fresh == neighbors(current) \ all
         IN  Search(Tail(queue) \o SetToSeq(fresh), all \cup fresh, fuel - 1)

\* LinkedChain.connected_links()
connected_links(n) == Search(<<n>>, {n}, SearchFuel)

\* LinkedChain.connected_links(), called for its result
ConnectedLinks(n) ==
    /\ call = Idle
    /\ n \in Live
    /\ call' = [Call("connected_links", n, 0,
                      IF connected_links(n).done THEN "ok" ELSE "diverges",
                      NULL, FALSE, FALSE)
                  EXCEPT !.links = connected_links(n).all]
    /\ UNCHANGED <<nodes, data, metadata, origin, graph, is_snapshot,
                   chain_link_history, history>>

\* ---------------------------------------------------------------- inputs
Payloads == {[f |-> 0, g |-> 0], [f |-> 1, g |-> 0], [f |-> 1, g |-> 1], [f |-> 1]}
Partials == [{"g"} -> {1}]
DataArgs == {Undefined} \cup {Defined(o) : o \in Payloads}
MetadataArgs == {Undefined} \cup {Defined([k \in {"title"} |-> t]) : t \in TitleInputs}
NoPointer == [def |-> FALSE, ptr |-> NULL]

\* update({ is_snapshot: v }): update reads data, metadata, next and parent
\* of its argument and nothing else
UpdateIsSnapshot(n, v) ==
    /\ v \in BOOLEAN
    /\ Update(n, Undefined, Undefined, NoPointer, NoPointer)

\* n.set_if_snapshot(v): LinkedChain has no such member, the call is a
\* TypeError (not a function)
SetIfSnapshot(n, v) ==
    /\ call = Idle
    /\ n \in Live
    /\ v \in BOOLEAN
    /\ call' = Call("set_if_snapshot", n, 0, "TypeError", NULL, FALSE, FALSE)
    /\ UNCHANGED <<nodes, data, metadata, origin, next, previous, progeny,
                   ancestors, is_snapshot, chain_link_history, history>>

Next ==
    \/ \E n \in NodeIds, d \in DataArgs, m \in MetadataArgs :
          Update(n, d, m, NoPointer, NoPointer)
    \/ \E n \in NodeIds, v \in BOOLEAN : UpdateIsSnapshot(n, v)
    \/ \E n \in NodeIds, v \in BOOLEAN : SetIfSnapshot(n, v)
    \/ \E n \in NodeIds, m \in MetadataInputs : UpdateMetadata(n, m)
    \/ \E n \in NodeIds : \E i \in -1..Len(timeline(n)) : RevertToHistory(n, i)
    \/ \E n \in NodeIds : \E i \in -1..Len(timeline(n)) : BranchFromHistory(n, i)
    \/ \E n \in NodeIds, item \in Partials : AddEntry(n, item)
    \/ \E n \in NodeIds : SaveCheckpoint(n)
    \/ \E n, link \in NodeIds : AddCheckpoint(n, link)
    \/ Return

Spec == Init /\ [][Next]_vars

\* The ledger specification: one node, built with or without data, is
\* updated and its History is appended to and queried.
LedgerData == InitData \cup {Undefined}

\* raw partial payloads given to add_entry, the empty object among them
LedgerPartials == Partials \cup {EmptyObj}

InitLedger ==
    \E d \in LedgerData, m \in InitMetadata : Constructed(d, m)

NextLedger ==
    \/ \E n \in NodeIds, d \in DataArgs, m \in MetadataArgs :
          Update(n, d, m, NoPointer, NoPointer)
    \/ \E n \in NodeIds, m \in MetadataInputs : UpdateMetadata(n, m)
    \/ \E n \in NodeIds, item \in LedgerPartials : AddEntry(n, item)
    \/ \E n \in NodeIds : SaveCheckpoint(n)
    \/ \E n \in NodeIds : \E i \in -1..Len(timeline(n)) : RebuildAt(n, i)
    \/ \E n \in NodeIds : \E start, end \in -1..Len(timeline(n)) :
          DeltaBetweenPoints(n, start, end)
    \/ Return

SpecLedger == InitLedger /\ [][NextLedger]_vars

\* data of the nodes built while linking
LinkData == {[f |-> 0, g |-> 0]}

\* The linking specification: nodes are built and spliced into chains.
NextGraph ==
    \/ \E d \in LinkData, m \in InitMetadata : NewLinkedChain(Defined(d), m)
    \/ \E d \in LinkData, m \in InitMetadata : \E p, nx \in NodeIds \cup {NULL} :
          NewLinkedChainLinked(Defined(d), m, p, nx)
    \/ \E n, b \in NodeIds : LinkNext(n, b)
    \/ \E n, b \in NodeIds : LinkPrevious(n, b)
    \/ \E n \in NodeIds : \E d \in LinkData : NewNextLink(n, d)
    \/ \E n \in NodeIds : \E d \in LinkData : NewPreviousLink(n, d)
    \/ \E n, b \in NodeIds : AddLink(n, b)
    \/ \E n \in NodeIds : \E i \in 0..Len(timeline(n)) : BranchFromHistory(n, i)
    \/ \E n \in NodeIds : ConnectedLinks(n)
    \/ Return

SpecGraph == Init /\ [][NextGraph]_vars

\* The shared-ledger specification: nodes are built with a History of their
\* own or holding the History of another node, and spliced into chains.
NextSharing ==
    \/ \E d \in LinkData, m \in InitMetadata : NewLinkedChain(Defined(d), m)
    \/ \E d \in LinkData : \E n \in NodeIds : NewSnapshotLink(Defined(d), n)
    \/ \E d \in LinkData, snap \in BOOLEAN : \E hist \in NodeIds \cup {NULL} :
          NewLinkedChainIngredients(Defined(d), snap, hist)
    \/ \E n, b \in NodeIds : LinkNext(n, b)
    \/ \E n, b \in NodeIds : LinkPrevious(n, b)
    \/ Return

SpecSharing == Init /\ [][NextSharing]_vars

\* payloads that give every field
FullPayloads == {o \in Payloads : DOMAIN o = Fields}

\* The tracking specification: a node built with data is changed only
\* through the methods of LinkedChain, with complete payloads.
NextTracking ==
    \/ \E n \in NodeIds, d \in FullPayloads, m \in MetadataArgs :
          Update(n, Defined(d), m, NoPointer, NoPointer)
    \/ \E n \in NodeIds, m \in MetadataInputs : UpdateMetadata(n, m)
    \/ \E n \in NodeIds : \E i \in 0..(Len(timeline(n)) - 1) : RevertToHistory(n, i)
    \/ \E n \in NodeIds : \E i \in 0..(Len(timeline(n)) - 1) : BranchFromHistory(n, i)
    \/ \E n, b \in NodeIds : AddLink(n, b)
    \/ Return

SpecTracking == Init /\ [][NextTracking]_vars

\* the predicates given to find, each as the set of nodes it holds of
Predicates == SUBSET NodeIds

\* The traversal specification: nodes are built and their pointers set to
\* any shape.
NextTraverse ==
    \/ \E d \in LinkData, m \in InitMetadata : NewLinkedChain(Defined(d), m)
    \/ \E n \in NodeIds : \E m \in NodeIds \cup {NULL} : SetNext(n, m)
    \/ \E n \in NodeIds : \E m \in NodeIds \cup {NULL} : SetPrevious(n, m)
    \/ \E n \in NodeIds : ProgenyPath(n)
    \/ \E n \in NodeIds : AncestorPath(n)
    \/ \E n \in NodeIds : \E P \in Predicates : Find(n, P)
    \/ \E n \in NodeIds : HasCircularLink(n)
    \/ Return

SpecTraverse == Init /\ [][NextTraverse]_vars

\* update({ next, parent }) within the bound of the graph
UpdatePointers(n, nx, pr) ==
    /\ Update(n, Undefined, Undefined, nx, pr)
    /\ LinksWithinBound(Graph)'

\* the next / parent arguments of update: absent, null or a live node
PointerArgs ==
    {NoPointer} \cup {[def |-> TRUE, ptr |-> x] : x \in Live \cup {NULL}}
\* The setter specification: nodes are built, their pointers are set by the
\* unrecorded setters and by update, and the first node's ledger is written
\* to directly, so that its latest_state differs from the node.
NextSetters ==
    \/ \E d \in LinkData, m \in InitMetadata : NewLinkedChain(Defined(d), m)
    \/ \E n \in NodeIds : \E x \in NodeIds \cup {NULL} : SetNextUnrecorded(n, x)
    \/ \E n \in NodeIds : \E x \in NodeIds \cup {NULL} : SetPreviousUnrecorded(n, x)
    \/ \E n \in NodeIds : \E nx, pr \in PointerArgs :
          UpdatePointers(n, nx, pr)
    \/ \E item \in Partials : AddEntry(1, item)
    \/ Return

SpecSetters == Init /\ [][NextSetters]_vars

\* ------------------------------------------------------------ properties
IsPrefix(s, t) == Len(s) <= Len(t) /\ \A i \in 1..Len(s) : s[i] = t[i]
Target == call.node
PreTimeline == call.pre_history.timeline
\* what rebuild_at(call.index) returned when the call was made
PreRebuilt == rebuild_at(call.pre_history, call.index)
ValidIndex == call.index >= 0 /\ call.index < Len(PreTimeline)
Reverted == call.op = "revert_to_history" /\ ValidIndex /\ call.result = "ok"
Branched == call.op = "branch_from_history" /\ call.result = "ok"

\* obj with the data_delta of timeline positions 1..k applied in order
RECURSIVE ApplyDeltas(_, _, _)
ApplyDeltas(tl, obj, k) ==
    IF k = 0 THEN obj
    ELSE LET before == ApplyDeltas(tl, obj, k - 1)
         IN  IF tl[k].data_delta.def
               THEN ObjectAssign(before, tl[k].data_delta.obj)
               ELSE before

\* C1: for every History and every index i with 0 <= i < len(timeline),
\* rebuild_at(i).data() is original_state.data() with every data_delta of
\* timeline[0..i] applied in order, whichever checkpoint was the replay base.
C1_RebuildIsDeltaFold ==
    \A n \in Live : \A i \in 0..(Len(timeline(n)) - 1) :
        LET h == History(n)
            r == rebuild_at(h, i)
        IN  /\ r.status = "ok"
            /\ r.data.def = h.original_state.data.def
            /\ r.data.def =>
                 r.data.obj = ApplyDeltas(h.timeline, h.original_state.data.obj, i + 1)

\* C2: across every operation the timeline of every History before the
\* operation is a prefix of its timeline after it: nothing is removed,
\* replaced or reordered, and the length never decreases.
C2_TimelineAppendOnly ==
    [][\A h \in NodeIds : IsPrefix(history[h].timeline, history'[h].timeline)]_vars

C2_Witness ==
    /\ Reverted
    /\ Len(PreTimeline) >= 2
    /\ Len(timeline(Target)) > Len(PreTimeline)

\* C3: after revert_to_history(i) with a valid index i the node's data() is
\* the data that rebuild_at(i) returned immediately before the call.
C3_RevertRestoresData ==
    Reverted => data[Target] = PreRebuilt.data

C3_Witness ==
    /\ Reverted
    /\ call.index = 0
    /\ call.pre_data # PreRebuilt.data
    /\ data[Target] = call.pre_history.original_state.data

Differs(latest, state) ==
    \/ \E k \in MetaKeys : latest.metadata[k] # state.metadata[k]
    \/ /\ latest.data.def /\ state.data.def
       /\ \E k \in DOMAIN state.data.obj :
             k \notin DOMAIN latest.data.obj \/ latest.data.obj[k] # state.data.obj[k]

C5_BranchResult ==
    Branched =>
        LET a == Target
            b == call.ret
        IN  /\ b # a
            /\ b \in Live \ (1..call.pre_nodes)
            /\ ~is_snapshot[b]
            /\ data[b] = PreRebuilt.data
            /\ origin[b] = (IF origin[a] # NULL THEN origin[a] ELSE a)
            /\ metadata[b].title = Append(PreRebuilt.metadata.title, BranchMark)

C5_Witness ==
    /\ Branched
    /\ origin[Target] # NULL
    /\ origin[call.ret] = origin[Target]

\* C6: the node b returned by a.branch_from_history(k) holds a History of its
\* own that starts with a single checkpoint entry, and an update or
\* revert_to_history on one node leaves the data and the History of every
\* other node as they were.
C6_BranchIndependent ==
    [][/\ (call'.op = "branch_from_history" /\ call'.result = "ok") =>
            LET b == call'.ret
            IN  /\ \A m \in (1..nodes') \ {b} :
                      chain_link_history'[m] # chain_link_history'[b]
                /\ Len(history'[chain_link_history'[b]].timeline) = 1
                /\ history'[chain_link_history'[b]].timeline[1].checkpoint.def
                /\ history'[chain_link_history'[b]].timeline[1].checkpoint.data = data'[b]
       /\ call'.op \in {"update", "revert_to_history"} =>
            \A m \in (1..nodes') \ {call'.node} :
                /\ data'[m] = data[m]
                /\ history'[chain_link_history'[m]] = history[chain_link_history[m]]
      ]_vars

C6_Witness ==
    /\ call.op = "update"
    /\ Len(timeline(Target)) > Len(PreTimeline)
    /\ \E b \in Live : origin[b] = Target /\ Len(timeline(b)) = 1

\* C7: branch_from_history(index) with index < 0 or index >= len(timeline)
\* raises the invalid-index error, creates no node and leaves the source
\* node's data, metadata, timeline and latest_state as they were.
C7_InvalidBranchThrows ==
    (call.op = "branch_from_history" /\ ~ValidIndex) =>
        /\ call.result = "Invalid history index"
        /\ call.ret = NULL
        /\ nodes = call.pre_nodes
        /\ data[Target] = call.pre_data
        /\ metadata[Target] = call.pre_metadata
        /\ History(Target) = call.pre_history

C7_Witness ==
    /\ call.op = "branch_from_history"
    /\ call.index = Len(PreTimeline)
    /\ Len(PreTimeline) >= 2
    /\ call.result = "Invalid history index"

\* C8: in every reachable state of a live node, update with a data payload
\* equal to the node's current data() and no metadata does not grow the
\* timeline.
C8_NoOpUpdateDoesNotGrow ==
    (call.op = "update" /\ call.has_data /\ ~call.has_meta
        /\ data[Target] = call.pre_data) =>
        Len(timeline(Target)) = Len(PreTimeline)

\* the payload's fields whose value differs from the field of old
ChangedFields(old, new) ==
    {k \in DOMAIN new : k \notin DOMAIN old \/ new[k] # old[k]}

\* C9: when update replaces data with a payload that differs from
\* the node's previous data in exactly the fields F, the entry it appends has
\* a data_delta of exactly the fields F with their new values.
C9_DeltaAgainstPreviousData ==
    (call.op = "update" /\ call.has_data /\ call.pre_data.def) =>
        LET new == data[Target].obj
            F == ChangedFields(call.pre_data.obj, new)
        IN  F # {} =>
              /\ Len(timeline(Target)) > Len(PreTimeline)
              /\ Last(timeline(Target)).data_delta = Defined([k \in F |-> new[k]])

\* C10: one update call that changes data and metadata appends exactly one
\* entry to the node's timeline.
C10_UpdateAppendsOneEntry ==
    (call.op = "update" /\ call.has_data /\ call.has_meta
        /\ data[Target] # call.pre_data /\ metadata[Target] # call.pre_metadata) =>
        Len(timeline(Target)) = Len(PreTimeline) + 1

\* C11: after a.link_next(b), a.next() is b, b.previous() is a, b is a member
\* of a.progeny() and a is a member of b.ancestors().
C11_LinkNextBidirectional ==
    call.op = "link_next" =>
        LET a == call.node
            b == call.ret
        IN  /\ next[a] = b
            /\ previous[b] = a
            /\ b \in progeny[a]
            /\ a \in ancestors[b]

C11_Witness ==
    /\ call.op = "link_next"
    /\ call.ret # call.node
    /\ next[call.ret] \notin {NULL, call.ret, call.node}

\* node b has no neighbour and is nobody's neighbour
Detached(b) ==
    /\ next[b] = NULL /\ previous[b] = NULL
    /\ \A x \in Live : next[x] # b /\ previous[x] # b

\* C12: splicing keeps the chain doubly linked.  If a.next() is c with
\* c.previous() = a and b is detached, a.link_next(b) or b = a.new_next_link()
\* gives a <-> b <-> c; if a.previous() is p, a.link_previous(b) gives
\* p <-> b <-> a (a, b, c and a, b, p distinct nodes).
C12_SpliceKeepsDoubleLinks ==
    [][/\ (/\ call'.op \in {"link_next", "new_next_link"}
           /\ next[call'.node] \notin {NULL, call'.node}
           /\ previous[next[call'.node]] = call'.node
           /\ call'.op = "link_next" => Detached(call'.ret)) =>
            LET a == call'.node
                b == call'.ret
                c == next[a]
            IN  /\ next'[a] = b /\ previous'[b] = a
                /\ next'[b] = c /\ previous'[c] = b
       /\ (/\ call'.op = "link_previous"
           /\ previous[call'.node] \notin {NULL, call'.node}
           /\ Detached(call'.ret)) =>
            LET a == call'.node
                b == call'.ret
                p == previous[a]
            IN  /\ next'[p] = b /\ previous'[b] = p
                /\ next'[b] = a /\ previous'[a] = b
      ]_vars

\* the node reached from n by following the pointer k times, NULL once the
\* chain has ended
RECURSIVE Nth(_, _, _)
Nth(ptr, n, k) ==
    IF k = 0 \/ n = NULL THEN n ELSE Nth(ptr, ptr[n], k - 1)

\* the nodes reached from n by following next one or more times
FollowersOf(n) == {Nth(next, n, k) : k \in 1..MaxNodes} \ {NULL}
OnCycle(m) == m \in FollowersOf(m)
\* following next pointers from n eventually revisits a node
RevisitsANode(n) == OnCycle(n) \/ \E m \in FollowersOf(n) : OnCycle(m)

\* C13: n.has_circular_link() terminates, and returns true if and only if
\* following next pointers from n eventually revisits a node: a cycle through
\* n, a cycle further down the chain, or a self-loop; false for a linear chain.
C13_CycleDetection ==
    call.op = "has_circular_link" =>
        /\ call.result \in {"true", "false"}
        /\ call.result = "true" <=> RevisitsANode(Target)

C13_Witness ==
    /\ call.op = "has_circular_link"
    /\ call.result = "true"
    /\ ~OnCycle(Target)

\* the nearest node satisfying P on the walk from n along ptr, or NULL
Nearest(ptr, n, P) ==
    IF \E k \in 1..MaxNodes : Nth(ptr, n, k) \in P
      THEN Nth(ptr, n, CHOOSE k \in 1..MaxNodes :
                          /\ Nth(ptr, n, k) \in P
                          /\ \A j \in 1..(k - 1) : Nth(ptr, n, j) \notin P)
      ELSE NULL

\* C14: n.find(p) returns n when p(n) holds; otherwise the nearest node
\* satisfying p on the next-pointer walk from n; otherwise the nearest one on
\* the previous-pointer walk; never a node that only the progeny / ancestor
\* sets reach.
C14_FindPrecedence ==
    call.op = "find" =>
        /\ call.result = "ok"
        /\ call.ret =
             (IF Target \in call.pred THEN Target
              ELSE IF Nearest(next, Target, call.pred) # NULL
                     THEN Nearest(next, Target, call.pred)
                     ELSE Nearest(previous, Target, call.pred))

\* C15: find is total: on every chain shape, linear, cyclic through the
\* start node or with a cycle that does not contain the start node, n.find(p)
\* with no node satisfying p terminates and returns undefined.
C15_FindTotal ==
    (call.op = "find" /\ call.pred \cap Live = {}) =>
        /\ call.result = "ok"
        /\ call.ret = NULL

\* the walk from n along ptr comes to null or back to n after k nodes
EndsAfter(ptr, n, k) == Nth(ptr, n, k + 1) \in {NULL, n}

\* C16: iterate(direction), and with it progeny_path() / ancestor_path(),
\* yields the nodes reached by following the pointer from n again and
\* again, nearest first, and ends when the pointer is null or the walk is
\* back at n; on no other walk does it end.
C16_IterateWalk ==
    call.op \in {"progeny_path", "ancestor_path"} =>
        LET ptr == IF call.op = "progeny_path" THEN next ELSE previous
            len == Len(call.path)
        IN  /\ \A i \in 1..len : call.path[i] = Nth(ptr, Target, i)
            /\ \A i \in 1..len : call.path[i] # NULL
            /\ \A i \in 1..(len - 1) : ~EndsAfter(ptr, Target, i)
            /\ call.result = "ok" =>
                 (ptr[Target] = NULL /\ len = 0) \/ (len >= 1 /\ EndsAfter(ptr, Target, len))
            /\ call.result = "ok" <=>
                 (ptr[Target] = NULL \/ \E k \in 1..MaxNodes : EndsAfter(ptr, Target, k))

C16_Witness ==
    /\ call.op = "progeny_path"
    /\ call.result = "ok"
    /\ Len(call.path) = 2
    /\ next[call.path[2]] = Target

\* the operations during which a timeline may grow: update in both forms,
\* the recording setters and the linking methods built on them, the
\* checkpoint operations, revert and branch, and the ledger's own add_entry
Recording ==
    {"update", "update_metadata", "set_next", "set_previous", "link_next",
     "link_previous", "new_next_link", "new_previous_link", "save_checkpoint",
     "add_checkpoint", "revert_to_history", "branch_from_history", "add_entry"}

\* C17: the length of a timeline increases only during update, the recording
\* set_next / set_previous, save_checkpoint, add_checkpoint, revert_to_history
\* and branch_from_history, and for the delta-recording ones only by an entry
\* with a non-empty delta; no other operation changes the length of a timeline.
C17_OnlyRecordingOperationsGrow ==
    [][\A h \in NodeIds :
          (history[h].timeline # <<>>
             /\ Len(history'[h].timeline) # Len(history[h].timeline)) =>
              /\ call'.op \in Recording
              /\ Len(history'[h].timeline) > Len(history[h].timeline)
              /\ call'.op \notin {"save_checkpoint", "add_checkpoint"} =>
                   \A i \in (Len(history[h].timeline) + 1)..Len(history'[h].timeline) :
                      \/ history'[h].timeline[i].data_delta.obj # EmptyObj
                      \/ history'[h].timeline[i].metadata_delta.obj # EmptyObj
      ]_vars

\* C18: every successful a.branch_from_history(k) appends an entry to a's
\* own timeline, also when the same index k is branched from again.
C18_BranchAlwaysRecorded ==
    Branched => Len(timeline(Target)) = Len(PreTimeline) + 1

\* the entries after start through end that write field k, as positions
Writers(tl, start, end, k) ==
    {i \in (start + 2)..(end + 1) :
        tl[i].data_delta.def /\ k \in DOMAIN tl[i].data_delta.obj}

Latest(S) == CHOOSE i \in S : \A j \in S : j <= i

\* every written field with the value of its last write
LastWriteWins(tl, start, end) ==
    [k \in {f \in Fields : Writers(tl, start, end, f) # {}} |->
        tl[Latest(Writers(tl, start, end, k))].data_delta.obj[k]]

\* C19: delta_between_points(start, end) returns, when 0 <= start < end <
\* len(timeline), the last-write-wins union in forward order of the
\* data_delta of the entries start+1..end; the empty delta when end <= start
\* or an index is out of range; and it never changes the ledger.
C19_DeltaBetweenPoints ==
    call.op = "delta_between_points" =>
        LET start == call.index
            end == call.end
            len == Len(PreTimeline)
        IN  /\ (0 <= start /\ start < end /\ end < len) =>
                 call.delta = LastWriteWins(PreTimeline, start, end)
            /\ (end <= start \/ start < 0 \/ end >= len) => call.delta = EmptyObj
            /\ History(Target) = call.pre_history

C19_Witness ==
    /\ call.op = "delta_between_points"
    /\ call.index = 0 /\ call.end = 2
    /\ \E k \in DOMAIN call.delta :
          /\ Cardinality(Writers(PreTimeline, 0, 2, k)) = 2
          /\ PreTimeline[2].data_delta.obj[k] # call.delta[k]

\* C20: rebuild_at(index) returns a snapshot node for every index with
\* 0 <= index < len(timeline), on every History, also that of a node built
\* without data, and the not-found result for every other index; the
\* timeline and latest_state are unchanged.
C20_RebuildAtTotal ==
    call.op = "rebuild_at" =>
        /\ call.result = (IF ValidIndex THEN "ok" ELSE "undefined")
        /\ History(Target) = call.pre_history

\* C21: the progeny and ancestors sets of every node are monotonic: no
\* operation removes a member, so after a.set_next(y) replaced an earlier
\* next x (or a.set_next(null)), x is still in a.progeny() and a still in
\* x.ancestors().
C21_SetsMonotonic ==
    [][\A n \in NodeIds :
          /\ progeny[n] \subseteq progeny'[n]
          /\ ancestors[n] \subseteq ancestors'[n]
          /\ (\E y \in NodeIds \cup {NULL} : SetNext(n, y)) =>
                (next[n] # NULL =>
                   /\ next[n] \in progeny'[n]
                   /\ n \in ancestors'[next[n]])
      ]_vars

\* a.set_next(y) has replaced an earlier next x that is still registered
C21_Witness ==
    /\ call.op = "set_next"
    /\ \E x \in progeny[Target] \cap NodeIds :
          /\ x # next[Target]
          /\ x # Target
          /\ Target \in ancestors[x]
          /\ previous[x] # Target

\* C22: a node constructed with a previous p and/or a next n has
\* previous() = p and next() = n and, immediately after construction, is a
\* member of p.progeny() and of n.ancestors(), with p in its ancestors()
\* and n in its progeny().
C22_ConstructorRegisters ==
    [][\A p, nx \in NodeIds \cup {NULL} : \A d \in LinkData, m \in InitMetadata :
          NewLinkedChainLinked(Defined(d), m, p, nx) =>
              LET k == nodes'
              IN  /\ previous'[k] = p
                  /\ next'[k] = nx
                  /\ p # NULL => (k \in progeny'[p] /\ p \in ancestors'[k])
                  /\ nx # NULL => (k \in ancestors'[nx] /\ nx \in progeny'[k])
      ]_vars

\* a node has just been constructed between two distinct existing nodes
C22_Witness ==
    /\ call.op = "new"
    /\ call.has_parent /\ call.has_next
    /\ previous[call.ret] # next[call.ret]
    /\ call.ret \in progeny[previous[call.ret]]
    /\ call.ret \in ancestors[next[call.ret]]

\* a.set_next(x) has made next() = x, registered x and a with each other
\* when x is not null, and changed no other pointer
SetNextFrame(a, x) ==
    /\ next' = [next EXCEPT ![a] = x]
    /\ previous' = previous
    /\ x # NULL => (x \in progeny'[a] /\ a \in ancestors'[x])

SetPreviousFrame(a, x) ==
    /\ previous' = [previous EXCEPT ![a] = x]
    /\ next' = next
    /\ x # NULL => (x \in ancestors'[a] /\ a \in progeny'[x])

\* C23: a.set_next(x) makes a.next() = x and, when x is not null, adds x to
\* a.progeny() and a to x.ancestors(); it changes no other pointer of any
\* node, and with record_history false it appends nothing to any timeline
\* by itself, also inside update({ next: x }), whose one add_entry(this) is
\* all that is recorded; set_previous is symmetric.
C23_SetterFrame ==
    [][\A a \in NodeIds : \A x \in NodeIds \cup {NULL} :
          LET given == [def |-> TRUE, ptr |-> x]
              recorded == [history EXCEPT ![chain_link_history[a]] =
                                              add_entry(@, Link(a))]
              by(op) == call'.op = op /\ call'.node = a
          IN  /\ (by("set_next_unrecorded") /\ SetNextUnrecorded(a, x)) =>
                    (SetNextFrame(a, x) /\ history' = history)
              /\ (by("set_previous_unrecorded") /\ SetPreviousUnrecorded(a, x)) =>
                    (SetPreviousFrame(a, x) /\ history' = history)
              /\ (by("update") /\ UpdatePointers(a, given, NoPointer)) =>
                    (SetNextFrame(a, x) /\ history' = recorded)
              /\ (by("update") /\ UpdatePointers(a, NoPointer, given)) =>
                    (SetPreviousFrame(a, x) /\ history' = recorded)
      ]_vars

\* update({ next: x }) has pointed a node with a pending ledger difference at
\* x, next to a node that has a pointer of its own, and recorded one entry
C23_Witness ==
    /\ call.op = "update"
    /\ call.has_next /\ ~call.has_parent
    /\ next[Target] \in NodeIds \ {Target}
    /\ Target \in ancestors[next[Target]]
    /\ previous[next[Target]] # Target
    /\ \E b \in Live \ {Target} : next[b] # NULL
    /\ Len(timeline(Target)) = Len(PreTimeline) + 1

C25_SnapshotFlagSettable ==
    [][\A n \in NodeIds, v \in BOOLEAN :
          /\ UpdateIsSnapshot(n, v) => is_snapshot'[n] = v
          /\ SetIfSnapshot(n, v) =>
                (is_snapshot'[n] = v /\ call'.result = "ok" /\ call'.ret = n)
      ]_vars

Creating == {"new_next_link", "new_previous_link", "branch_from_history"}

\* C26: a node created by a.new_next_link, a.new_previous_link or
\* a.branch_from_history has origin() equal to a.origin() ?? a, and no
\* operation changes the origin of a node after its construction; hence the
\* origin of every derived node is a root, a node with no origin.
C26_OriginInherited ==
    [][/\ \A k \in Live : origin'[k] = origin[k]
       /\ (call'.op \in Creating /\ call'.result = "ok" /\ nodes' # nodes) =>
             LET a == call'.node
             IN  origin'[call'.ret] = (IF origin[a] # NULL THEN origin[a] ELSE a)
       /\ \A k \in 1..nodes' : origin'[k] # NULL => origin'[origin'[k]] = NULL
      ]_vars

\* a node has been created from a node that itself has an origin
C26_Witness ==
    /\ call.op \in Creating
    /\ call.result = "ok"
    /\ call.ret = nodes
    /\ origin[Target] \notin {NULL, Target}
    /\ origin[call.ret] = origin[Target]

\* the nodes that are members of the ancestors or progeny set of x
SetMembers(x) ==
    IF x \in NodeIds THEN ancestors[x] \cup progeny[x]
    ELSE {y \in NodeIds : x \in progeny[y] \cup ancestors[y]}

Closed(S) == \A x \in S : SetMembers(x) \subseteq S

\* C27: n.connected_links() terminates on any graph, cyclic ones included,
\* and returns exactly the set of nodes reachable from n by repeatedly
\* following members of ancestors() and progeny(), n itself included: the
\* least set that holds n and is closed under the members of both sets.
C27_ConnectedLinks ==
    call.op = "connected_links" =>
        /\ call.result = "ok"
        /\ Target \in call.links
        /\ Closed(call.links)
        /\ \A S \in SUBSET call.links : (Target \in S /\ Closed(S)) => S = call.links

\* connected_links() on a cycle of two nodes has returned both and a
\* snapshot registered with them, and not the third node
C27_Witness ==
    /\ call.op = "connected_links"
    /\ nodes = 3
    /\ Cardinality(call.links \cap NodeIds) = 2
    /\ \E s \in call.links : s \notin NodeIds
    /\ next[Target] # NULL /\ next[Target] # Target
    /\ next[next[Target]] = Target

\* C28: when update is called with a data payload that mentions only some
\* fields, only those fields change and the fields not mentioned are
\* preserved in the node's data().
C28_PartialPayloadPreserves ==
    [][\A n \in NodeIds, d \in DataArgs, m \in MetadataArgs :
          (call'.op = "update" /\ call'.node = n /\ d.def /\ data[n].def
             /\ Update(n, d, m, NoPointer, NoPointer)) =>
              /\ data'[n].def
              /\ data'[n].obj = ObjectAssign(data[n].obj, d.obj)
      ]_vars

\* C29: revert_to_history(index) with index < 0 or index >= len(timeline) is
\* a no-op: it returns the node and leaves the node's data and metadata and
\* its timeline and latest_state unchanged.
C29_InvalidRevertNoOp ==
    (call.op = "revert_to_history" /\ ~ValidIndex) =>
        /\ call.result = "ok" /\ call.ret = Target
        /\ data[Target] = call.pre_data
        /\ metadata[Target] = call.pre_metadata
        /\ History(Target) = call.pre_history

\* revert_to_history(len(timeline)) on a node that differs from its ledger's
\* latest_state and from the state at the last index
C29_Witness ==
    /\ call.op = "revert_to_history"
    /\ call.index = Len(PreTimeline)
    /\ Len(PreTimeline) > 1
    /\ Link(Target) # History(Target).latest_state
    /\ data[Target] # rebuild_at(History(Target), call.index - 1).data

\* the entries appended to History h by the step
Grown(h) == Len(history'[h].timeline) - Len(history[h].timeline)

\* C30: a.link_next(b) and a.link_previous(b) result in exactly one history
\* append per distinct History touched: one on a's History, one on b's
\* History when b does not share a's History, and never two appends on the
\* same History within one call.
C30_OneAppendPerHistory ==
    [][\A a, b \in NodeIds :
          (call'.op \in {"link_next", "link_previous"} /\ call'.node = a
             /\ (LinkNext(a, b) \/ LinkPrevious(a, b))) =>
              /\ Grown(chain_link_history[a]) = 1
              /\ Grown(chain_link_history[b]) = 1
              /\ \A h \in NodeIds : Grown(h) <= 1
      ]_vars

\* C31: immediately after the construction of a node that is not a snapshot
\* its timeline holds exactly one entry, a checkpoint whose data is the
\* node's initial data; in every later state timeline[0] is still that
\* checkpoint, with the same data.
C31_GenesisCheckpoint ==
    /\ [](call.op \in {"new", "branch_from_history"} /\ call.result = "ok" =>
             LET k == call.ret
             IN  /\ Len(timeline(k)) = 1
                 /\ timeline(k)[1] = CheckpointEntry(Link(k)))
    /\ [][\A h \in NodeIds :
             history[h].timeline # <<>> =>
                 /\ history'[h].timeline # <<>>
                 /\ history'[h].timeline[1] = history[h].timeline[1]
                 /\ history[h].timeline[1].checkpoint.def
         ]_vars

\* a node whose timeline has grown to three entries and whose data is no
\* longer the data of the checkpoint at index 0
C31_Witness ==
    \E n \in Live :
        /\ Len(timeline(n)) = 3
        /\ timeline(n)[1].checkpoint.def
        /\ timeline(n)[1].checkpoint.data # data[n]
        /\ timeline(n)[1].checkpoint.data # History(n).latest_state.data

\* node k has just been built with a History of its own, seeded from itself
OwnsNewHistory(k) ==
    /\ chain_link_history'[k] = k
    /\ \A m \in Live : chain_link_history[m] # k
    /\ history'[k] = NewHistory([data |-> data'[k], metadata |-> metadata'[k]])
    /\ \A h \in NodeIds \ {k} : history'[h] = history[h]

\* C32: a node constructed with is_snapshot true and a supplied History
\* shares that History by reference and adds no entry to it; every other
\* node (not a snapshot, or a snapshot without a supplied History) owns a
\* brand-new History seeded from itself, so no two distinct live nodes that
\* are not snapshots ever share a History.
C32_HistoryOwnership ==
    /\ [](\A a, b \in Live :
             (a # b /\ ~is_snapshot[a] /\ ~is_snapshot[b]) =>
                 chain_link_history[a] # chain_link_history[b])
    /\ [][\A d \in LinkData, snap \in BOOLEAN : \A hist \in NodeIds \cup {NULL} :
             (call'.op = "new"
                /\ NewLinkedChainIngredients(Defined(d), snap, hist)) =>
                 IF snap /\ hist # NULL
                   THEN /\ chain_link_history'[nodes'] = chain_link_history[hist]
                        /\ history' = history
                   ELSE OwnsNewHistory(nodes')
         ]_vars

\* three nodes: one built without metadata that is not a snapshot and owns
\* its History, and a snapshot that shares the History of the first node
C32_Witness ==
    /\ nodes = 3
    /\ \E k \in Live \ {1} : ~is_snapshot[k] /\ chain_link_history[k] = k
                               /\ metadata[k] = DefaultMetadata
    /\ \E k \in Live \ {1} : is_snapshot[k] /\ chain_link_history[k] = 1
    /\ Len(timeline(1)) > 1

\* C33: snapshot nodes are detached: no snapshot node, whether created at
\* construction, by a checkpoint operation or by rebuild_at, is ever a member
\* of the progeny() or ancestors() set of a live node, so that the sets and
\* connected_links() of live nodes hold live nodes only.
C33_SnapshotsDetached ==
    /\ \A n \in Live : progeny[n] \cup ancestors[n] \subseteq NodeIds
    /\ call.op = "connected_links" => call.links \subseteq NodeIds

\* C34: no timeline ever contains an entry with an empty data delta, an
\* empty metadata delta and no checkpoint: add_entry, given a full node or a
\* raw partial payload, appends nothing when both deltas are empty.
C34_NoEmptyEntries ==
    \A n \in Live : \A i \in 1..Len(timeline(n)) :
        LET entry == timeline(n)[i]
        IN  \/ entry.checkpoint.def
            \/ entry.data_delta.def /\ entry.data_delta.obj # EmptyObj
            \/ entry.metadata_delta.def /\ entry.metadata_delta.obj # EmptyObj

\* every data_delta of the timeline of h applied in order onto the data of
\* original_state, an absent data being nothing to start from
Cumulative(h) ==
    LET base == IF h.original_state.data.def THEN h.original_state.data.obj
                ELSE EmptyObj
        folded == ApplyDeltas(h.timeline, base, Len(h.timeline))
    IN  IF ~h.original_state.data.def /\ folded = EmptyObj THEN Undefined
        ELSE Defined(folded)

\* C35: in every reachable state latest_state.data() equals the cumulative
\* result of applying, in order, every data_delta recorded in the timeline
\* onto original_state.data(): each add_entry that appends a delta also
\* folds it into latest_state, for node and raw partial inputs alike.
C35_LatestStateIsCumulative ==
    \A n \in Live : History(n).latest_state.data = Cumulative(History(n))

\* C36: save_checkpoint appends exactly one checkpoint-only entry whose
\* snapshot is latest_state as it is at that moment, and a checkpoint stored
\* in a timeline is immutable: no later operation changes the data or
\* metadata of a checkpoint that is already in the timeline.
C36_CheckpointsImmutable ==
    [][/\ \A n \in NodeIds :
             (call'.op = "save_checkpoint" /\ call'.node = n /\ SaveCheckpoint(n)) =>
                 LET before == History(n)
                     after == history'[chain_link_history[n]]
                 IN  /\ after.timeline =
                           Append(before.timeline, CheckpointEntry(before.latest_state))
                     /\ after.latest_state = before.latest_state
       /\ \A h \in NodeIds : \A i \in 1..Len(history[h].timeline) :
             history[h].timeline[i].checkpoint.def =>
                 /\ i <= Len(history'[h].timeline)
                 /\ history'[h].timeline[i] = history[h].timeline[i]
      ]_vars

\* a checkpoint taken by save_checkpoint after a change, in a ledger whose
\* latest_state has since moved away from it
C36_Witness ==
    \E n \in Live : \E i \in 2..Len(timeline(n)) :
        /\ timeline(n)[i].checkpoint.def
        /\ History(n).saved_checkpoints # <<>>
        /\ timeline(n)[i].checkpoint.data # History(n).latest_state.data
        /\ data[n] = History(n).latest_state.data

\* C37: the ledger tracks the live node: after any sequence of update,
\* update_metadata, revert_to_history, branch_from_history, add_link and
\* linking or setter calls on a live node created with data,
\* rebuild_at(len(timeline) - 1) returns the node's current data() and a
\* title equal to the node's current metadata().title.
C37_LedgerTracksNode ==
    \A n \in Live :
        LET rebuilt == rebuild_at(History(n), Len(timeline(n)) - 1)
        IN  /\ rebuilt.status = "ok"
            /\ rebuilt.data = data[n]
            /\ rebuilt.metadata.title = metadata[n].title

\* C38: the past is stable: once index i is valid for a History, every
\* step, whatever entries and checkpoints it appends, leaves the data and
\* the title returned by rebuild_at(i) as they were.
C38_PastIsStable ==
    [][\A h \in NodeIds : \A i \in 0..(Len(history[h].timeline) - 1) :
          LET before == rebuild_at(history[h], i)
              after == rebuild_at(history'[h], i)
          IN  /\ after.status = before.status
              /\ after.data = before.data
              /\ after.metadata.title = before.metadata.title
      ]_vars

\* a checkpoint has been saved after an entry that changed the data, so
\* that an earlier index rebuilds to a state other than the newest checkpoint
C38_Witness ==
    /\ call.op = "save_checkpoint"
    /\ LET h == History(Target)
           len == Len(h.timeline)
       IN  /\ len >= 3
           /\ h.timeline[len].checkpoint.def
           /\ rebuild_at(h, 0).status = "ok"
           /\ rebuild_at(h, 0).data # rebuild_at(h, len - 1).data

\* overwriting rebuild_at(start).data() with the fields of
\* delta_between_points(start, end) gives rebuild_at(end).data()
Composes(h, start, end) ==
    LET from == rebuild_at(h, start)
        to == rebuild_at(h, end)
    IN  /\ from.status = "ok" /\ from.data.def
        /\ to.status = "ok" /\ to.data.def
        /\ ObjectAssign(from.data.obj, delta_between_points(h, start, end)) = to.data.obj

\* C39: deltas compose with reconstruction: on a History whose checkpoints
\* were taken only at construction and by save_checkpoint, and for any
\* 0 <= start < end < len(timeline), overwriting rebuild_at(start).data()
\* with the fields of delta_between_points(start, end) gives
\* rebuild_at(end).data().
C39_DeltasCompose ==
    \A n \in Live :
        LET h == History(n)
        IN  \A start, end \in 0..(Len(h.timeline) - 1) :
                start < end => Composes(h, start, end)

\* the same composition on the Histories whose original_state has data
C39_DeltasComposeWithData ==
    \A n \in Live :
        LET h == History(n)
        IN  h.original_state.data.def =>
                \A start, end \in 0..(Len(h.timeline) - 1) :
                    start < end => Composes(h, start, end)

====
